---------------------------- MODULE Spec2Model ----------------------------
(***************************************************************************)
(* Web Connectivity summary (package webconnectivity): Summarize walks the *)
(* TestKeys of one measurement and derives Accessible, BlockingReason and  *)
(* the legacy Blocking value.                                              *)
(*                                                                         *)
(* A Go pointer to a bool or a string is modelled as a sequence of length  *)
(* at most one: <<>> is nil and <<v>> points to v. The interface{} value   *)
(* Blocking is a record carrying its dynamic type.  A URL is the tuple of  *)
(* its characters, so that strings.HasPrefix is a real prefix test.        *)
(***************************************************************************)
EXTENDS Integers, Sequences, FiniteSets

VARIABLES tk, out, pc

vars == <<tk, out, pc>>

---------------------------------------------------------------------------
(* Bounds of the model *)

\* longest chain of HTTP requests (redirects) in tk.Requests
MaxRequests == 2
\* largest number of TCP connect attempts
MaxTCPConnectAttempts == 1

---------------------------------------------------------------------------
(* Constants of the program *)

Nil == <<>>
Ptr(v) == <<v>>

FailureConnectionRefused == "connection_refused"
FailureConnectionReset == "connection_reset"
FailureDNSNXDOMAINError == "dns_nxdomain_error"
FailureEOFError == "eof_error"
FailureGenericTimeoutError == "generic_timeout_error"
FailureSSLInvalidHostname == "ssl_invalid_hostname"
FailureSSLInvalidCertificate == "ssl_invalid_certificate"
FailureSSLUnknownAuthority == "ssl_unknown_authority"
\* a failure string outside the closed set (the "other" bucket)
FailureUnknown == "unknown_failure"

DNSConsistent == "consistent"
DNSInconsistent == "inconsistent"
\* a DNSConsistency string that is neither of the two above
DNSOther == "reverse_match"

accessible == TRUE
inaccessible == FALSE
dns == "dns"
httpDiff == "http-diff"
httpFailure == "http-failure"
tcpIP == "tcp_ip"

HTTPSPrefix == <<"h", "t", "t", "p", "s", ":", "/", "/">>
URLHTTPS == HTTPSPrefix \o <<"a">>
URLHTTP == <<"h", "t", "t", "p", ":", "/", "/", "a">>

---------------------------------------------------------------------------
(* The evidence: TestKeys *)

ClassifiedFailures ==
    { FailureConnectionRefused, FailureConnectionReset, FailureDNSNXDOMAINError,
      FailureEOFError, FailureGenericTimeoutError, FailureSSLInvalidHostname,
      FailureSSLInvalidCertificate, FailureSSLUnknownAuthority }

Failures == ClassifiedFailures \cup {FailureUnknown}

OptFailure == {Nil} \cup {Ptr(f) : f \in Failures}

OptBool == {Nil, Ptr(TRUE), Ptr(FALSE)}

URLs == {URLHTTPS, URLHTTP}

\* one entry of tk.Requests: the first request may end in any way
RequestEntry == [Failure : OptFailure, URL : URLs]

\* the entries after the first one (Summarize reads only how many there are)
LaterEntry ==
    { [Failure |-> Nil, URL |-> URLHTTPS],
      [Failure |-> Ptr(FailureEOFError), URL |-> URLHTTP] }

RECURSIVE LaterChains(_)
LaterChains(n) ==
    IF n = 0 THEN {<<>>}
    ELSE LaterChains(n - 1) \cup
         {Append(c, e) : c \in {x \in LaterChains(n - 1) : Len(x) = n - 1},
                         e \in LaterEntry}

RequestChains ==
    {<<>>} \cup
    {<<first>> \o rest : first \in RequestEntry, rest \in LaterChains(MaxRequests - 1)}

TCPCounters ==
    {c \in (0..MaxTCPConnectAttempts) \X (0..MaxTCPConnectAttempts) : c[2] <= c[1]}

TestKeys ==
    [ Requests : RequestChains,
      ControlFailure : {Nil, Ptr(FailureUnknown)},
      DNSExperimentFailure : {Nil, Ptr(FailureDNSNXDOMAINError), Ptr(FailureUnknown)},
      DNSConsistency : {Nil, Ptr(DNSConsistent), Ptr(DNSInconsistent), Ptr(DNSOther)},
      TCPConnect : TCPCounters,
      ControlHTTPRequestFailure : {Nil, Ptr(FailureUnknown)},
      StatusCodeMatch : OptBool,
      BodyLengthMatch : OptBool,
      HeadersMatch : OptBool,
      TitleMatch : OptBool ]

TCPConnectAttempts(t) == t.TCPConnect[1]
TCPConnectSuccesses(t) == t.TCPConnect[2]

---------------------------------------------------------------------------
(* The Summary *)

NilInterface == [type |-> "nil", b |-> FALSE, p |-> Nil]
BoolInterface(v) == [type |-> "bool", b |-> v, p |-> Nil]
StringPtrInterface(ptr) == [type |-> "*string", b |-> FALSE, p |-> ptr]

\* the zero value of Summary, which is what the named result starts as
ZeroSummary == [Accessible |-> Nil, BlockingReason |-> Nil, Blocking |-> NilInterface]


\* mutant: the reason is returned as it is, also when Accessible is true
DetermineBlockingNaive(s) == StringPtrInterface(s.BlockingReason)

DetermineBlocking(s) ==
    IF s.Accessible # Nil /\ s.Accessible[1] = TRUE
    THEN BoolInterface(FALSE)
    ELSE StringPtrInterface(s.BlockingReason)

HasPrefix(s, prefix) ==
    Len(s) >= Len(prefix) /\ SubSeq(s, 1, Len(prefix)) = prefix

---------------------------------------------------------------------------
(* The rules of Summarize, in the order of the code *)


\* mutant: the last request of the chain is examined instead of the first
HTTPSReachableLast(t) ==
    /\ Len(t.Requests) > 0
    /\ t.Requests[Len(t.Requests)].Failure = Nil
    /\ HasPrefix(t.Requests[Len(t.Requests)].URL, HTTPSPrefix)

HTTPSReachable(t) ==
    /\ Len(t.Requests) > 0
    /\ t.Requests[1].Failure = Nil
    /\ HasPrefix(t.Requests[1].URL, HTTPSPrefix)


\* mutant: the control's HTTP failure is read instead of ControlFailure
ControlUnreachableWrongField(t) == t.ControlHTTPRequestFailure # Nil

ControlUnreachable(t) == t.ControlFailure # Nil


\* mutant: the consistency test is inverted
NXDOMAINAndInconsistent(t) ==
    /\ t.DNSExperimentFailure # Nil
    /\ t.DNSExperimentFailure[1] = FailureDNSNXDOMAINError
    /\ t.DNSConsistency # Nil
    /\ t.DNSConsistency[1] = DNSInconsistent

NXDOMAINAndConsistent(t) ==
    /\ t.DNSExperimentFailure # Nil
    /\ t.DNSExperimentFailure[1] = FailureDNSNXDOMAINError
    /\ t.DNSConsistency # Nil
    /\ t.DNSConsistency[1] = DNSConsistent


\* mutant: the test on the number of attempts is missing
TCPConnectNoAttemptsTest(t) ==
    /\ TCPConnectSuccesses(t) <= 0
    /\ t.DNSConsistency # Nil

\* mutant: successes are compared with < instead of <=
TCPConnectStrictlyNegative(t) ==
    /\ TCPConnectAttempts(t) > 0
    /\ TCPConnectSuccesses(t) < 0
    /\ t.DNSConsistency # Nil

TCPConnectTotalFailure(t) ==
    /\ TCPConnectAttempts(t) > 0
    /\ TCPConnectSuccesses(t) <= 0
    /\ t.DNSConsistency # Nil

TCPConnectVerdict(o, t) ==
    CASE t.DNSConsistency[1] = DNSConsistent ->
             [o EXCEPT !.BlockingReason = Ptr(tcpIP), !.Accessible = Ptr(inaccessible)]
      [] t.DNSConsistency[1] = DNSInconsistent ->
             [o EXCEPT !.BlockingReason = Ptr(dns), !.Accessible = Ptr(inaccessible)]
      [] OTHER -> o

ControlHTTPFailed(t) == t.ControlHTTPRequestFailure # Nil

NoRequests(t) == Len(t.Requests) < 1

FirstRequestFailed(t) == t.Requests[1].Failure # Nil


\* mutant: the case of eof_error is missing, so it falls in the default
ClassifyFailureNoEOF(o, failure) ==
    CASE failure \in {FailureConnectionRefused, FailureGenericTimeoutError} ->
             [o EXCEPT !.BlockingReason = Ptr(tcpIP), !.Accessible = Ptr(inaccessible)]
      [] failure \in {FailureConnectionReset, FailureSSLInvalidHostname,
                      FailureSSLInvalidCertificate, FailureSSLUnknownAuthority} ->
             [o EXCEPT !.BlockingReason = Ptr(httpFailure), !.Accessible = Ptr(inaccessible)]
      [] failure = FailureDNSNXDOMAINError ->
             [o EXCEPT !.BlockingReason = Ptr(dns), !.Accessible = Ptr(inaccessible)]
      [] OTHER -> o

ClassifyFailure(o, failure) ==
    CASE failure = FailureConnectionRefused ->
             [o EXCEPT !.BlockingReason = Ptr(tcpIP), !.Accessible = Ptr(inaccessible)]
      [] failure = FailureConnectionReset ->
             [o EXCEPT !.BlockingReason = Ptr(httpFailure), !.Accessible = Ptr(inaccessible)]
      [] failure = FailureDNSNXDOMAINError ->
             [o EXCEPT !.BlockingReason = Ptr(dns), !.Accessible = Ptr(inaccessible)]
      [] failure = FailureEOFError ->
             [o EXCEPT !.BlockingReason = Ptr(httpFailure), !.Accessible = Ptr(inaccessible)]
      [] failure = FailureGenericTimeoutError ->
             [o EXCEPT !.BlockingReason = Ptr(tcpIP), !.Accessible = Ptr(inaccessible)]
      [] failure \in {FailureSSLInvalidHostname, FailureSSLInvalidCertificate,
                      FailureSSLUnknownAuthority} ->
             [o EXCEPT !.BlockingReason = Ptr(httpFailure), !.Accessible = Ptr(inaccessible)]
      [] OTHER -> o


\* mutant: the override fires for a chain of any length
TieBreakAnyLength(o, t) ==
    IF /\ o.BlockingReason # Nil
       /\ Len(t.Requests) >= 1
       /\ t.DNSConsistency # Nil
       /\ t.DNSConsistency[1] = DNSInconsistent
    THEN [o EXCEPT !.BlockingReason = Ptr(dns)]
    ELSE o

TieBreak(o, t) ==
    IF /\ o.BlockingReason # Nil
       /\ Len(t.Requests) = 1
       /\ t.DNSConsistency # Nil
       /\ t.DNSConsistency[1] = DNSInconsistent
    THEN [o EXCEPT !.BlockingReason = Ptr(dns)]
    ELSE o


\* mutant: an absent flag counts as a match
IsTrueOrAbsent(ptr) == ptr = Nil \/ ptr[1]

IsTrue(ptr) == ptr # Nil /\ ptr[1]


\* mutant: the status code is not required to match
ContentMatchesNoStatus(t) ==
    \/ IsTrue(t.BodyLengthMatch)
    \/ IsTrue(t.HeadersMatch)
    \/ IsTrue(t.TitleMatch)

ContentMatches(t) ==
    /\ IsTrue(t.StatusCodeMatch)
    /\ \/ IsTrue(t.BodyLengthMatch)
       \/ IsTrue(t.HeadersMatch)
       \/ IsTrue(t.TitleMatch)

DNSLooksInconsistent(t) ==
    t.DNSConsistency # Nil /\ t.DNSConsistency[1] = DNSInconsistent

\* the body of Summarize up to its return statements
SummarizeBody(t) ==
    LET o == ZeroSummary IN
    IF HTTPSReachable(t) THEN [o EXCEPT !.Accessible = Ptr(accessible)]
    ELSE IF ControlUnreachable(t) THEN o
    ELSE IF NXDOMAINAndConsistent(t) THEN o
    ELSE IF TCPConnectTotalFailure(t) THEN TCPConnectVerdict(o, t)
    ELSE IF ControlHTTPFailed(t) THEN o
    ELSE IF NoRequests(t) THEN o
    ELSE IF FirstRequestFailed(t)
         THEN TieBreak(ClassifyFailure(o, t.Requests[1].Failure[1]), t)
    ELSE IF ContentMatches(t) THEN [o EXCEPT !.Accessible = Ptr(accessible)]
    ELSE IF DNSLooksInconsistent(t)
         THEN [o EXCEPT !.BlockingReason = Ptr(dns), !.Accessible = Ptr(inaccessible)]
    ELSE [o EXCEPT !.BlockingReason = Ptr(httpDiff), !.Accessible = Ptr(inaccessible)]

\* the deferred function runs on every return
Summarize(t) ==
    LET o == SummarizeBody(t) IN [o EXCEPT !.Blocking = DetermineBlocking(o)]

---------------------------------------------------------------------------
(* The state machine: one measurement's TestKeys, summarized once *)

Init ==
    /\ tk \in TestKeys
    /\ out = ZeroSummary
    /\ pc = "call"

Call ==
    /\ pc = "call"
    /\ out' = Summarize(tk)
    /\ pc' = "done"
    /\ UNCHANGED tk

Next == Call

Spec == Init /\ [][Next]_vars

Returned == pc = "done"

---------------------------------------------------------------------------
(* Vocabulary of the properties, stated on the fields of tk and out *)

First == tk.Requests[1]

\* the first request is an https request that did not fail
FirstIsHTTPSSuccess ==
    Len(tk.Requests) >= 1 /\ First.Failure = Nil /\ First.URL = URLHTTPS

DNSExperimentNXDOMAINConsistent ==
    tk.DNSExperimentFailure = Ptr(FailureDNSNXDOMAINError)
        /\ tk.DNSConsistency = Ptr(DNSConsistent)

TCPAllConnectsFailed ==
    tk.TCPConnect[1] > 0 /\ tk.TCPConnect[2] <= 0 /\ tk.DNSConsistency # Nil

\* none of the rules before "no probe HTTP requests recorded" matched
NoEarlyRuleMatched ==
    /\ ~FirstIsHTTPSSuccess
    /\ tk.ControlFailure = Nil
    /\ ~DNSExperimentNXDOMAINConsistent
    /\ ~TCPAllConnectsFailed
    /\ tk.ControlHTTPRequestFailure = Nil

\* the first-request-failed rule is the rule that decides
FirstRequestFailedDecides ==
    NoEarlyRuleMatched /\ Len(tk.Requests) >= 1 /\ First.Failure # Nil

\* the content-comparison rule is reached
ContentComparisonReached ==
    NoEarlyRuleMatched /\ Len(tk.Requests) >= 1 /\ First.Failure = Nil

BothAbsent == out.Accessible = Nil /\ out.BlockingReason = Nil

Reasons == {dns, tcpIP, httpFailure, httpDiff}

\* Blocking as the data consumers see it: null, false, or a reason string
BlockingIsNull ==
    out.Blocking.type = "nil" \/ (out.Blocking.type = "*string" /\ out.Blocking.p = Nil)
BlockingIsFalse == out.Blocking.type = "bool" /\ out.Blocking.b = FALSE
BlockingIsReason == out.Blocking.type = "*string" /\ out.Blocking.p # Nil

Blocked(reason) == out.Accessible = Ptr(FALSE) /\ out.BlockingReason = Ptr(reason)

\* the table of the failure codes
ReasonOfFailure(f) ==
    CASE f \in {"connection_refused", "generic_timeout_error"} -> "tcp_ip"
      [] f \in {"connection_reset", "eof_error", "ssl_invalid_hostname",
                "ssl_invalid_certificate", "ssl_unknown_authority"} -> "http-failure"
      [] f = "dns_nxdomain_error" -> "dns"

---------------------------------------------------------------------------
(* C1 *)

\* C1 as stated: whenever ControlFailure is present, Accessible and
\* BlockingReason are both absent and Blocking is null, whatever the other
\* fields are.
C1_AbsencePropagationAlways ==
    (Returned /\ tk.ControlFailure # Nil) => (BothAbsent /\ BlockingIsNull)

\* C1 amended: whenever ControlFailure is present and the first request is
\* not an https request that succeeded, Accessible and BlockingReason are
\* both absent and Blocking is null, whatever the other fields are.
C1_AbsencePropagation ==
    (Returned /\ tk.ControlFailure # Nil /\ ~FirstIsHTTPSSuccess)
        => (BothAbsent /\ BlockingIsNull)

C1_Witness ==
    /\ Returned
    /\ tk.ControlFailure # Nil
    /\ Len(tk.Requests) = 1 /\ First.Failure = Ptr(FailureConnectionRefused)
    /\ tk.TCPConnect = <<1, 0>> /\ tk.DNSConsistency = Ptr(DNSInconsistent)
    /\ BothAbsent

---------------------------------------------------------------------------
(* C2 *)

\* C2: whenever the first request is an https request with no failure,
\* Accessible is true and BlockingReason is absent, whatever the other
\* fields (and the later requests of the chain) are.
C2_HTTPSShortcut ==
    (Returned /\ FirstIsHTTPSSuccess)
        => (out.Accessible = Ptr(TRUE) /\ out.BlockingReason = Nil)

C2_Witness ==
    /\ Returned
    /\ FirstIsHTTPSSuccess
    /\ Len(tk.Requests) = 2 /\ tk.Requests[2].Failure # Nil
    /\ tk.ControlFailure # Nil
    /\ tk.TCPConnect = <<1, 0>> /\ tk.DNSConsistency = Ptr(DNSInconsistent)
    /\ out.Accessible = Ptr(TRUE)

---------------------------------------------------------------------------
(* C3 *)

\* C3: on every return of Summarize, Blocking is null exactly when
\* Accessible is absent, false exactly when Accessible is true, and the
\* BlockingReason string (one of the four reasons) exactly when Accessible
\* is false.
C3_LegacyTriState ==
    Returned =>
        /\ BlockingIsNull <=> out.Accessible = Nil
        /\ BlockingIsFalse <=> out.Accessible = Ptr(TRUE)
        /\ BlockingIsReason <=> out.Accessible = Ptr(FALSE)
        /\ BlockingIsReason =>
               (out.Blocking.p = out.BlockingReason /\ out.Blocking.p[1] \in Reasons)
        /\ out.Accessible = Nil => out.BlockingReason = Nil

C3_Witness ==
    /\ Returned
    /\ ContentComparisonReached /\ First.URL = URLHTTP
    /\ out.Accessible = Ptr(TRUE)
    /\ BlockingIsFalse

---------------------------------------------------------------------------
(* C4 *)

\* C4: when the first-request-failed rule decides and the failure code is
\* classified, the reason is dns if the chain has exactly one request and
\* DNSConsistency is Inconsistent, and the reason of the failure-code table
\* in every other case; the override leaves Accessible as the classification
\* set it, and an unclassified failure gets no reason.
C4_TieBreakOverride ==
    (Returned /\ FirstRequestFailedDecides) =>
        LET f == First.Failure[1] IN
        /\ out.Accessible = ClassifyFailure(ZeroSummary, f).Accessible
        /\ f \in ClassifiedFailures =>
               out.BlockingReason =
                   IF Len(tk.Requests) = 1 /\ tk.DNSConsistency = Ptr(DNSInconsistent)
                   THEN Ptr("dns")
                   ELSE Ptr(ReasonOfFailure(f))
        /\ f \notin ClassifiedFailures => out.BlockingReason = Nil

C4_Witness ==
    /\ Returned
    /\ FirstRequestFailedDecides
    /\ First.Failure = Ptr(FailureConnectionRefused)
    /\ Len(tk.Requests) = 1
    /\ tk.DNSConsistency = Ptr(DNSInconsistent)
    /\ Blocked(dns)

---------------------------------------------------------------------------
(* C5 *)

---------------------------------------------------------------------------
(* C6 *)

\* C6 as stated: first request succeeded, control succeeded, StatusCodeMatch
\* false or absent, DNSConsistency absent or Consistent: inaccessible with
\* reason http-diff.
C6_DefaultFallbackAlways ==
    (/\ Returned
     /\ Len(tk.Requests) >= 1 /\ First.Failure = Nil
     /\ tk.ControlFailure = Nil /\ tk.ControlHTTPRequestFailure = Nil
     /\ tk.StatusCodeMatch \in {Nil, Ptr(FALSE)}
     /\ tk.DNSConsistency \in {Nil, Ptr(DNSConsistent)})
        => Blocked(httpDiff)

\* C6 amended: the same, provided the first request is not an https request,
\* the DNS experiment did not fail with dns_nxdomain_error under a Consistent
\* DNS, and it is not the case that every TCP connect failed with
\* DNSConsistency present: inaccessible with reason http-diff.
C6_DefaultFallback ==
    (/\ Returned
     /\ Len(tk.Requests) >= 1 /\ First.Failure = Nil
     /\ tk.ControlFailure = Nil /\ tk.ControlHTTPRequestFailure = Nil
     /\ tk.StatusCodeMatch \in {Nil, Ptr(FALSE)}
     /\ tk.DNSConsistency \in {Nil, Ptr(DNSConsistent)}
     /\ First.URL # URLHTTPS
     /\ ~DNSExperimentNXDOMAINConsistent
     /\ ~TCPAllConnectsFailed)
        => Blocked(httpDiff)

C6_Witness ==
    /\ Returned
    /\ Len(tk.Requests) >= 1 /\ First.Failure = Nil /\ First.URL = URLHTTP
    /\ tk.ControlFailure = Nil /\ tk.ControlHTTPRequestFailure = Nil
    /\ tk.StatusCodeMatch = Nil
    /\ tk.BodyLengthMatch = Ptr(TRUE)
    /\ tk.DNSConsistency = Ptr(DNSConsistent)
    /\ tk.TCPConnect = <<1, 1>>
    /\ Blocked(httpDiff)

---------------------------------------------------------------------------
(* C7 *)

\* C7: when none of the HTTPS shortcut, control-unreachable and NXDOMAIN
\* rules matches and every TCP connect failed with DNSConsistency present,
\* the verdict is inaccessible with reason tcp_ip under a Consistent DNS and
\* dns under an Inconsistent one, whatever the control's HTTP failure, the
\* requests and the content flags are.
C7_TCPTotalFailurePrecedence ==
    (/\ Returned
     /\ ~FirstIsHTTPSSuccess
     /\ tk.ControlFailure = Nil
     /\ ~DNSExperimentNXDOMAINConsistent
     /\ TCPAllConnectsFailed)
        => /\ tk.DNSConsistency = Ptr(DNSConsistent) => Blocked(tcpIP)
           /\ tk.DNSConsistency = Ptr(DNSInconsistent) => Blocked(dns)

C7_Witness ==
    /\ Returned
    /\ tk.ControlFailure = Nil
    /\ TCPAllConnectsFailed
    /\ tk.DNSConsistency = Ptr(DNSConsistent)
    /\ tk.DNSExperimentFailure = Nil
    /\ tk.ControlHTTPRequestFailure # Nil
    /\ Len(tk.Requests) = 0
    /\ tk.StatusCodeMatch = Ptr(TRUE) /\ tk.BodyLengthMatch = Ptr(TRUE)
    /\ Blocked(tcpIP)

---------------------------------------------------------------------------
(* C8 *)

\* C8 as stated: whenever the first-request-failed rule decides, Accessible
\* is false, also for an unclassified failure code.
C8_FirstFailureAlwaysInaccessible ==
    (Returned /\ FirstRequestFailedDecides) => out.Accessible = Ptr(FALSE)

\* C8 amended: whenever the first-request-failed rule decides, Accessible is
\* false for every classified failure code, and for an unclassified failure
\* code Accessible and BlockingReason are both left absent.
C8_FirstFailureInaccessible ==
    (Returned /\ FirstRequestFailedDecides) =>
        IF First.Failure[1] \in ClassifiedFailures
        THEN out.Accessible = Ptr(FALSE) /\ out.BlockingReason # Nil
        ELSE BothAbsent

C8_Witness ==
    /\ Returned
    /\ FirstRequestFailedDecides
    /\ First.Failure = Ptr(FailureEOFError)
    /\ Len(tk.Requests) = 2
    /\ Blocked(httpFailure)

---------------------------------------------------------------------------
(* C9 *)

\* C9: when the content-comparison rule is reached, Accessible is true iff
\* StatusCodeMatch is present and true and one of BodyLengthMatch,
\* HeadersMatch, TitleMatch is present and true; otherwise the verdict is
\* inaccessible, with reason dns under an Inconsistent DNS and http-diff
\* otherwise.
C9_ContentComparison ==
    (Returned /\ ContentComparisonReached) =>
        LET match == /\ tk.StatusCodeMatch = Ptr(TRUE)
                     /\ \/ tk.BodyLengthMatch = Ptr(TRUE)
                        \/ tk.HeadersMatch = Ptr(TRUE)
                        \/ tk.TitleMatch = Ptr(TRUE)
        IN /\ out.Accessible = Ptr(TRUE) <=> match
           /\ match => out.BlockingReason = Nil
           /\ ~match =>
                  IF tk.DNSConsistency = Ptr(DNSInconsistent)
                  THEN Blocked(dns)
                  ELSE Blocked(httpDiff)

C9_Witness ==
    /\ Returned
    /\ ContentComparisonReached
    /\ tk.StatusCodeMatch = Ptr(TRUE)
    /\ tk.BodyLengthMatch = Nil /\ tk.HeadersMatch = Nil /\ tk.TitleMatch = Ptr(FALSE)
    /\ tk.DNSConsistency = Ptr(DNSInconsistent)
    /\ Blocked(dns)

---------------------------------------------------------------------------
(* C10 *)

\* C10: whenever ControlFailure is present, or the DNS experiment failed
\* with dns_nxdomain_error under a Consistent DNS, no blocking is reported:
\* Accessible is not false, BlockingReason is absent, and Blocking is null
\* or false.
C10_NoVerdictWithoutControl ==
    (Returned /\ (tk.ControlFailure # Nil \/ DNSExperimentNXDOMAINConsistent))
        => /\ out.Accessible # Ptr(FALSE)
           /\ out.BlockingReason = Nil
           /\ BlockingIsNull \/ BlockingIsFalse

C10_Witness ==
    /\ Returned
    /\ tk.ControlFailure = Nil
    /\ DNSExperimentNXDOMAINConsistent
    /\ tk.TCPConnect = <<1, 0>>
    /\ Len(tk.Requests) = 1 /\ First.Failure = Ptr(FailureDNSNXDOMAINError)
    /\ BothAbsent /\ BlockingIsNull

=============================================================================
